---------------------------- MODULE Spec2Model ----------------------------
(***************************************************************************)
(* Warning-ledger bot (src/bot.py): the warns table, the participants      *)
(* table, target resolution and the command handlers, as a state machine.  *)
(*                                                                         *)
(* Text is a sequence of one-character strings; None is the one-element    *)
(* sequence <<"None">>, which no text equals.  User and chat ids are       *)
(* strings (one allow-listed id exceeds 32 bits).                          *)
(***************************************************************************)
EXTENDS Integers, Sequences, FiniteSets, Bags, TLC

VARIABLES
    warns,      \* rows of table warns
    nextId,     \* next AUTOINCREMENT value of warns.id
    now,        \* the wall clock: the reading utcnow() gives
    participants, \* rows of table participants
    tasks,      \* handlers suspended in `await is_admin(...)`: a bag of their frames
    out,        \* what the last handler step did: its message, the lookup's result, the reply
    sighted,    \* history: the (chat, username_lower) pairs upserted so far
    inserted,   \* history: add_warn calls made by the add-only driver, per (chat, user, kind)
    call        \* the last repository call made by the ledger driver, with what it observed

vars == <<warns, nextId, now, participants, tasks, out, sighted, inserted, call>>

botVars == <<participants, tasks, out, sighted>>

-----------------------------------------------------------------------------
(* Bounds *)

MaxId == 3          \* rows ever inserted into warns
MaxTasks == 1       \* handlers suspended at the same time

\* Readings of utcnow(): second and microsecond.
Clock == {[s |-> 0, us |-> 0], [s |-> 0, us |-> 1], [s |-> 1, us |-> 0]}

\* The readings and the amnesty counts the ledger driver passes.
LedgerClock == {[s |-> 0, us |-> 0], [s |-> 0, us |-> 1]}
LedgerCounts == {1, 2}

Earlier(a, b) == a.s < b.s \/ (a.s = b.s /\ a.us < b.us)

None == <<"None">>

\* (chat, user) pairs the ledger driver addresses: two users of one chat,
\* and one of them in a second chat.
LedgerChats == {"-100", "-200"}
LedgerUsers == {"578664673", "1000"}
LedgerPairs == {<<"-100", "578664673">>, <<"-100", "1000">>, <<"-200", "578664673">>}
LedgerPairs3 == {<<p[1], p[2], k>> : p \in LedgerPairs, k \in {"warn", "hard"}}

WarnTypes == {"warn", "hard"}

Min(a, b) == IF a <= b THEN a ELSE b

-----------------------------------------------------------------------------
(* Timestamps: datetime.utcnow().isoformat(), stored in a TEXT column *)

\* isoformat() prints the seconds and, only when they are not zero, the
\* microseconds after them: a shorter text.  The fixed-width fields of the
\* text are its elements here.
isoformat(t) ==
    IF t.us = 0 THEN <<t.s>> ELSE <<t.s, t.us>>

\* SQLite compares TEXT bytewise: the first differing field decides, and a
\* proper prefix is smaller.
TextLess(a, b) ==
    \E i \in 1..Len(b) :
        /\ \A j \in 1..(i - 1) : j <= Len(a) /\ a[j] = b[j]
        /\ \/ i = Len(a) + 1
           \/ i <= Len(a) /\ a[i] < b[i]

-----------------------------------------------------------------------------
(* Table warns *)

WarnRow(id, chat_id, user_id, user_name, warn_type, reason, given_by_id, given_by_name, created_at) ==
    [id |-> id, chat_id |-> chat_id, user_id |-> user_id, user_name |-> user_name,
     warn_type |-> warn_type, reason |-> reason, given_by_id |-> given_by_id,
     given_by_name |-> given_by_name, created_at |-> created_at]

\* INSERT INTO warns ... VALUES (..., reason or "", ..., utcnow().isoformat())
add_warn(W, id, chat_id, user_id, user_name, warn_type, reason, given_by_id, given_by_name, t) ==
    W \cup {WarnRow(id, chat_id, user_id, user_name, warn_type,
                    IF reason = None THEN <<>> ELSE reason,
                    given_by_id, given_by_name, isoformat(t))}

\* A table scan yields the rows in rowid order.
RECURSIVE ScanById(_)
ScanById(S) ==
    IF S = {} THEN <<>>
    ELSE LET r == CHOOSE x \in S : \A y \in S : x.id <= y.id
         IN  <<r>> \o ScanById(S \ {r})

\* ORDER BY created_at DESC, id DESC: a comes before b.
RowBefore_NoTieBreak(a, b) ==
    TextLess(b.created_at, a.created_at)

RowBefore_Ascending(a, b) ==
    \/ TextLess(a.created_at, b.created_at)
    \/ a.created_at = b.created_at /\ a.id < b.id

RowBefore(a, b) ==
    \/ TextLess(b.created_at, a.created_at)
    \/ a.created_at = b.created_at /\ a.id > b.id

\* The sorter is stable: a scanned row goes before the first row it comes
\* before, and after the rows it ties with.
RECURSIVE InsertRow(_, _)
InsertRow(sorted, r) ==
    IF sorted = <<>> THEN <<r>>
    ELSE IF RowBefore(r, Head(sorted)) THEN <<r>> \o sorted
    ELSE <<Head(sorted)>> \o InsertRow(Tail(sorted), r)

RECURSIVE SortRows(_)
SortRows(seq) ==
    IF seq = <<>> THEN <<>>
    ELSE InsertRow(SortRows(SubSeq(seq, 1, Len(seq) - 1)), seq[Len(seq)])

OrderByRecency(S) == SortRows(ScanById(S))

\* LIMIT n: a negative n is no limit.
Limit(seq, n) ==
    IF n < 0 THEN seq ELSE SubSeq(seq, 1, Min(n, Len(seq)))

\* SELECT id, warn_type, reason, created_at, given_by_name ... ORDER BY created_at DESC, id DESC
get_user_warns(W, chat_id, user_id) ==
    LET rows == OrderByRecency({r \in W : r.chat_id = chat_id /\ r.user_id = user_id})
    IN  [i \in 1..Len(rows) |->
            [id |-> rows[i].id, warn_type |-> rows[i].warn_type, reason |-> rows[i].reason,
             created_at |-> rows[i].created_at, given_by_name |-> rows[i].given_by_name]]

\* SELECT warn_type, COUNT(*) ... GROUP BY warn_type; data.get(kind, 0)
DictGet(d, k, default) == IF k \in DOMAIN d THEN d[k] ELSE default

get_user_counts_AnyUser(W, chat_id, user_id) ==
    LET sel  == {r \in W : r.chat_id = chat_id}
        data == [k \in {r.warn_type : r \in sel} |->
                    Cardinality({r \in sel : r.warn_type = k})]
    IN  <<DictGet(data, "warn", 0), DictGet(data, "hard", 0)>>

get_user_counts(W, chat_id, user_id) ==
    LET sel  == {r \in W : r.chat_id = chat_id /\ r.user_id = user_id}
        data == [k \in {r.warn_type : r \in sel} |->
                    Cardinality({r \in sel : r.warn_type = k})]
    IN  <<DictGet(data, "warn", 0), DictGet(data, "hard", 0)>>

\* DELETE FROM warns WHERE id IN (SELECT id ... ORDER BY created_at DESC, id DESC LIMIT ?)
SeqRange(seq) == {seq[i] : i \in 1..Len(seq)}

amnesty_partial_IgnoresKind(W, chat_id, user_id, count, kind) ==
    LET sel == {r \in W : r.chat_id = chat_id /\ r.user_id = user_id}
        ids == {r.id : r \in SeqRange(Limit(OrderByRecency(sel), count))}
    IN  {r \in W : r.id \notin ids}

amnesty_partial(W, chat_id, user_id, count, kind) ==
    LET sel == IF kind \in {"warn", "hard"}
               THEN {r \in W : r.chat_id = chat_id /\ r.user_id = user_id /\ r.warn_type = kind}
               ELSE {r \in W : r.chat_id = chat_id /\ r.user_id = user_id}
        ids == {r.id : r \in SeqRange(Limit(OrderByRecency(sel), count))}
    IN  {r \in W : r.id \notin ids}

\* DELETE FROM warns WHERE chat_id = ? AND user_id = ?
amnesty_full_AnyChat(W, chat_id, user_id) ==
    {r \in W : r.user_id # user_id}

amnesty_full(W, chat_id, user_id) ==
    {r \in W : ~(r.chat_id = chat_id /\ r.user_id = user_id)}

-----------------------------------------------------------------------------
(* Text: Python str operations on sequences of characters *)

UpperLetters == <<"A","B","C","D","E","F","G","H","I","J","K","L","M",
                  "N","O","P","Q","R","S","T","U","V","W","X","Y","Z">>
LowerLetters == <<"a","b","c","d","e","f","g","h","i","j","k","l","m",
                  "n","o","p","q","r","s","t","u","v","w","x","y","z">>
Digits == <<"0","1","2","3","4","5","6","7","8","9">>

\* A character outside the Basic Multilingual Plane: one code point of a
\* Python str, two UTF-16 code units in the platform's entity offsets.
Astral == {"U+1F600"}

Utf16Units(c) == IF c \in Astral THEN 2 ELSE 1

RECURSIVE Utf16Len(_)
Utf16Len(s) == IF s = <<>> THEN 0 ELSE Utf16Units(Head(s)) + Utf16Len(Tail(s))

\* \w of re, for the characters above
IsWord(c) == c \in SeqRange(UpperLetters) \cup SeqRange(LowerLetters) \cup SeqRange(Digits) \cup {"_"}

IsSpace(c) == c \in {" ", "\n", "\t"}

lower_Identity(s) == s

\* str.lower()
LowerChar(c) ==
    IF \E i \in 1..26 : UpperLetters[i] = c
    THEN LowerLetters[CHOOSE i \in 1..26 : UpperLetters[i] = c]
    ELSE c

lower(s) == [i \in 1..Len(s) |-> LowerChar(s[i])]

\* s[a:b], indices from 0, clamped to the text
Slice(s, a, b) == SubSeq(s, Min(a, Len(s)) + 1, Min(b, Len(s)))

\* str.lstrip("@")
RECURSIVE lstrip_at(_)
lstrip_at(s) == IF s # <<>> /\ Head(s) = "@" THEN lstrip_at(Tail(s)) ELSE s

\* str.strip()
RECURSIVE lstrip(_)
lstrip(s) == IF s # <<>> /\ IsSpace(Head(s)) THEN lstrip(Tail(s)) ELSE s

RECURSIVE rstrip(_)
rstrip(s) == IF s # <<>> /\ IsSpace(s[Len(s)]) THEN rstrip(SubSeq(s, 1, Len(s) - 1)) ELSE s

strip(s) == rstrip(lstrip(s))

\* Length of the longest run of word characters at the head of s
RECURSIVE WordRun(_)
WordRun(s) == IF s # <<>> /\ IsWord(Head(s)) THEN 1 + WordRun(Tail(s)) ELSE 0

\* re.sub(r"@\w+", "", s): every '@' followed by word characters goes, with them
RECURSIVE sub_handles(_)
sub_handles(s) ==
    IF s = <<>> THEN <<>>
    ELSE IF Head(s) = "@" /\ WordRun(Tail(s)) > 0
         THEN sub_handles(SubSeq(s, 2 + WordRun(Tail(s)), Len(s)))
         ELSE <<Head(s)>> \o sub_handles(Tail(s))

\* Length of the run of characters that are not whitespace at the head of s
RECURSIVE TokenRun(_)
TokenRun(s) == IF s # <<>> /\ ~IsSpace(Head(s)) THEN 1 + TokenRun(Tail(s)) ELSE 0

\* str.split(): the runs of characters that are not whitespace
RECURSIVE split(_)
split(s) ==
    LET t == lstrip(s)
    IN  IF t = <<>> THEN <<>>
        ELSE <<SubSeq(t, 1, TokenRun(t))>> \o split(SubSeq(t, TokenRun(t) + 1, Len(t)))

\* int(token): an optional sign, then digits, single underscores between
\* digits allowed; None for anything else (ValueError).
DigitValue(c) == (CHOOSE i \in 1..10 : Digits[i] = c) - 1

RECURSIVE DigitsValue(_, _)
DigitsValue(s, acc) ==
    IF s = <<>> THEN acc
    ELSE IF Head(s) = "_" THEN DigitsValue(Tail(s), acc)
    ELSE DigitsValue(Tail(s), 10 * acc + DigitValue(Head(s)))

IsIntBody(s) ==
    /\ s # <<>>
    /\ \A i \in 1..Len(s) : s[i] \in SeqRange(Digits) \cup {"_"}
    /\ s[1] # "_" /\ s[Len(s)] # "_"
    /\ \A i \in 1..(Len(s) - 1) : ~(s[i] = "_" /\ s[i + 1] = "_")

\* ok is FALSE where int() raises ValueError
int(s) ==
    LET signed == s # <<>> /\ Head(s) \in {"+", "-"}
        body   == IF signed THEN Tail(s) ELSE s
    IN  IF ~IsIntBody(body) THEN [ok |-> FALSE, value |-> 0]
        ELSE IF signed /\ Head(s) = "-" THEN [ok |-> TRUE, value |-> 0 - DigitsValue(body, 0)]
        ELSE [ok |-> TRUE, value |-> DigitsValue(body, 0)]

-----------------------------------------------------------------------------
(* The chat summary *)

\* Code-point order of the characters, for MAX() over a TEXT column
CodePoints == <<"\t", "\n", " ", "+", "-">> \o Digits \o <<"@">> \o UpperLetters
              \o <<"_">> \o LowerLetters \o <<"U+1F600">>

CodePoint(c) == CHOOSE i \in 1..Len(CodePoints) : CodePoints[i] = c

CharTextLess(a, b) ==
    \E i \in 1..Len(b) :
        /\ \A j \in 1..(i - 1) : j <= Len(a) /\ a[j] = b[j]
        /\ \/ i = Len(a) + 1
           \/ i <= Len(a) /\ CodePoint(a[i]) < CodePoint(b[i])

\* SELECT user_id, COALESCE(MAX(user_name), ''), SUM(warn), SUM(hard) ...
\* GROUP BY user_id: one row per user of the chat
SummaryRows(W, chat_id) ==
    {LET G == {r \in W : r.chat_id = chat_id /\ r.user_id = u}
     IN  [user_id |-> u,
          user_name |-> (CHOOSE n \in {r.user_name : r \in G} :
                            \A k \in {r.user_name : r \in G} : ~CharTextLess(n, k)),
          warn_cnt |-> Cardinality({r \in G : r.warn_type = "warn"}),
          hard_cnt |-> Cardinality({r \in G : r.warn_type = "hard"})] :
        u \in {r.user_id : r \in {q \in W : q.chat_id = chat_id}}}

SummaryBefore_TotalOnly(a, b) ==
    a.warn_cnt + a.hard_cnt > b.warn_cnt + b.hard_cnt

\* ORDER BY (warn_cnt + hard_cnt) DESC, hard_cnt DESC: a comes before b
SummaryBefore(a, b) ==
    \/ a.warn_cnt + a.hard_cnt > b.warn_cnt + b.hard_cnt
    \/ a.warn_cnt + a.hard_cnt = b.warn_cnt + b.hard_cnt /\ a.hard_cnt > b.hard_cnt

\* Rows that tie on both keys come in any order: the possible results.
get_all_counts(W, chat_id) ==
    LET R == SummaryRows(W, chat_id)
        n == Cardinality(R)
    IN  {seq \in [1..n -> R] :
            /\ \A i, j \in 1..n : i # j => seq[i] # seq[j]
            /\ \A i, j \in 1..n : i < j => ~SummaryBefore(seq[j], seq[i])}

-----------------------------------------------------------------------------
(* Users, and table participants *)

ALLOWED_USER_IDS == {"578664673", "921799469", "5253999365", "824111058"}

is_allowed_Anyone(user_id) == TRUE

is_allowed(user_id) == IF user_id # "None" THEN user_id \in ALLOWED_USER_IDS ELSE FALSE

\* A platform user: id, username, first_name, last_name (None where absent)
User(id, username, first_name, last_name) ==
    [id |-> id, username |-> username, first_name |-> first_name, last_name |-> last_name]

NoUser == User("None", None, None, None)

\* x or None, for a text
OrNone(x) == IF x = None \/ x = <<>> THEN None ELSE x

\* User.full_name of the framework: the first name, and the last name after a
\* space when there is one
full_name(user) ==
    IF OrNone(user.last_name) # None
    THEN user.first_name \o <<" ">> \o user.last_name
    ELSE user.first_name

\* What the handlers read of a target: its id and its full_name
Target(id, name) == [id |-> id, full_name |-> name]

NoTarget == Target("None", None)

\* INSERT INTO participants ... ON CONFLICT(chat_id, user_id) DO UPDATE SET ...
participant_upsert_KeepsHandle(P, chat_id, user, t) ==
    IF user = NoUser \/ \E r \in P : r.chat_id = chat_id /\ r.user_id = user.id THEN P
    ELSE P \cup {[chat_id |-> chat_id, user_id |-> user.id,
                  username |-> OrNone(user.username),
                  username_lower |-> OrNone(lower(IF OrNone(user.username) = None THEN <<>> ELSE user.username)),
                  first_name |-> OrNone(user.first_name),
                  last_name |-> OrNone(user.last_name),
                  updated_at |-> isoformat(t)]}

participant_upsert(P, chat_id, user, t) ==
    IF user = NoUser THEN P
    ELSE LET username       == OrNone(user.username)
             username_lower == OrNone(lower(IF username = None THEN <<>> ELSE username))
         IN  {r \in P : ~(r.chat_id = chat_id /\ r.user_id = user.id)} \cup
             {[chat_id |-> chat_id, user_id |-> user.id,
               username |-> username, username_lower |-> username_lower,
               first_name |-> OrNone(user.first_name),
               last_name |-> OrNone(user.last_name),
               updated_at |-> isoformat(t)]}

\* The SimpleNamespace(id, full_name) built from a row
FoundParticipant(r) ==
    LET names == IF r.first_name # None /\ r.last_name # None
                 THEN r.first_name \o <<" ">> \o r.last_name
                 ELSE IF r.first_name # None THEN r.first_name
                 ELSE IF r.last_name # None THEN r.last_name
                 ELSE <<>>
    IN  Target(r.user_id,
               IF names # <<>> THEN names
               ELSE IF r.username # None THEN <<"@">> \o r.username
               ELSE <<"u","s","e","r">>)

\* SELECT ... WHERE chat_id = ? AND username_lower = ?; fetchone().  The
\* query has no ORDER BY: with several matching rows any of them may come
\* first, so the result is a set of possible values, empty for None.
find_participant_by_username_AnyChat(P, chat_id, username_lower) ==
    {FoundParticipant(r) : r \in {q \in P : q.username_lower = username_lower}}

find_participant_by_username(P, chat_id, username_lower) ==
    {FoundParticipant(r) : r \in {q \in P : q.chat_id = chat_id /\ q.username_lower = username_lower}}

-----------------------------------------------------------------------------
(* Messages *)

\* An entity of a message.  offset and length count UTF-16 code units.
Entity(type, offset, length, user) ==
    [type |-> type, offset |-> offset, length |-> length, user |-> user]

\* The platform marks each @handle of a text as a 'mention' entity: an '@' at
\* the start of a word, with the word characters after it.
MentionStarts(text) ==
    {i \in 1..Len(text) :
        /\ text[i] = "@"
        /\ i = 1 \/ IsSpace(text[i - 1])
        /\ WordRun(SubSeq(text, i + 1, Len(text))) > 0}

\* A 'text_mention' entity carries a user and covers a name in the text: here
\* the first word that starts with a letter.
NameStarts(text) ==
    {i \in 1..Len(text) :
        /\ text[i] \in SeqRange(UpperLetters) \cup SeqRange(LowerLetters)
        /\ i > 1 /\ IsSpace(text[i - 1])}

RECURSIVE EntitiesByOffset(_)
EntitiesByOffset(E) ==
    IF E = {} THEN <<>>
    ELSE LET e == CHOOSE x \in E : \A y \in E : x.offset <= y.offset
         IN  <<e>> \o EntitiesByOffset(E \ {e})

PlatformEntities(text, mentioned) ==
    LET mentions == {Entity("mention", Utf16Len(SubSeq(text, 1, i - 1)),
                            1 + WordRun(SubSeq(text, i + 1, Len(text))), NoUser) :
                        i \in MentionStarts(text)}
        names    == NameStarts(text)
        first    == CHOOSE i \in names : \A j \in names : i <= j
        named    == IF mentioned = NoUser \/ names = {} THEN {}
                    ELSE {Entity("text_mention", Utf16Len(SubSeq(text, 1, first - 1)),
                                 WordRun(SubSeq(text, first, Len(text))), mentioned)}
    IN  EntitiesByOffset(mentions \cup named)

CommandText(cmd) ==
    CASE cmd = "start"       -> <<"/","s","t","a","r","t">>
      [] cmd = "help"        -> <<"/","h","e","l","p">>
      [] cmd = "warn"        -> <<"/","w","a","r","n">>
      [] cmd = "hardwarn"    -> <<"/","h","a","r","d","w","a","r","n">>
      [] cmd = "warns"       -> <<"/","w","a","r","n","s">>
      [] cmd = "allwarns"    -> <<"/","a","l","l","w","a","r","n","s">>
      [] cmd = "amnesty"     -> <<"/","a","m","n","e","s","t","y">>
      [] cmd = "fullamnesty" -> <<"/","f","u","l","l","a","m","n","e","s","t","y">>

\* An inbound command: the chat, the sender, the author of the message it
\* replies to (NoUser without one), the text, the platform's entities and the
\* arguments the framework cuts from the text (None without any).
Message(cmd, chat_id, chat_type, from_user, reply_from, args, mentioned) ==
    LET text == IF args = None THEN CommandText(cmd)
                ELSE CommandText(cmd) \o <<" ">> \o args
    IN  [cmd |-> cmd, chat_id |-> chat_id, chat_type |-> chat_type,
         from_user |-> from_user, reply_from |-> reply_from,
         text |-> text, entities |-> PlatformEntities(text, mentioned), args |-> args]

-----------------------------------------------------------------------------
(* Target resolution *)

track_message_participants(P, message, t) ==
    participant_upsert(participant_upsert(P, message.chat_id, message.from_user, t),
                       message.chat_id, message.reply_from, t)

\* The text of the last 'mention' entity, cut from the text at the entity's
\* offset and length, without its '@'; None without one.
MentionTexts(message) ==
    LET idx == {i \in 1..Len(message.entities) : message.entities[i].type = "mention"}
        RECURSIVE Collect(_)
        Collect(i) ==
            IF i > Len(message.entities) THEN <<>>
            ELSE (IF i \in idx
                  THEN <<Slice(message.text, message.entities[i].offset,
                               message.entities[i].offset + message.entities[i].length)>>
                  ELSE <<>>) \o Collect(i + 1)
    IN  Collect(1)

extract_mention_username_First(message) ==
    LET mentions == MentionTexts(message)
    IN  IF message.entities = <<>> \/ mentions = <<>> THEN None
        ELSE OrNone(strip(lstrip_at(mentions[1])))

extract_mention_username(message) ==
    LET mentions == MentionTexts(message)
    IN  IF message.entities = <<>> \/ mentions = <<>> THEN None
        ELSE OrNone(strip(lstrip_at(mentions[Len(mentions)])))

\* The possible results: one, unless the directory lookup has several rows
\* to pick from.
extract_target_user_MentionFirst(P, message) ==
    LET tms   == {i \in 1..Len(message.entities) :
                    message.entities[i].type = "text_mention" /\ message.entities[i].user # NoUser}
        uname == extract_mention_username(message)
        found == IF uname = None THEN {}
                 ELSE find_participant_by_username(P, message.chat_id, lower(uname))
    IN  IF found # {} THEN found
        ELSE IF message.reply_from # NoUser
        THEN {Target(message.reply_from.id, full_name(message.reply_from))}
        ELSE IF tms # {}
        THEN LET u == message.entities[CHOOSE i \in tms : \A j \in tms : i <= j].user
             IN  {Target(u.id, full_name(u))}
        ELSE {NoTarget}

extract_target_user(P, message) ==
    LET tms   == {i \in 1..Len(message.entities) :
                    message.entities[i].type = "text_mention" /\ message.entities[i].user # NoUser}
        uname == extract_mention_username(message)
        found == IF uname = None THEN {}
                 ELSE find_participant_by_username(P, message.chat_id, lower(uname))
    IN  IF message.reply_from # NoUser
        THEN {Target(message.reply_from.id, full_name(message.reply_from))}
        ELSE IF tms # {}
        THEN LET u == message.entities[CHOOSE i \in tms : \A j \in tms : i <= j].user
             IN  {Target(u.id, full_name(u))}
        ELSE IF found # {} THEN found
        ELSE {NoTarget}

clean_reason_NoTrim(args) ==
    IF args = None \/ args = <<>> THEN <<>> ELSE sub_handles(args)

\* clean_reason(command.args)
clean_reason(args) ==
    IF args = None \/ args = <<>> THEN <<>> ELSE strip(sub_handles(args))

-----------------------------------------------------------------------------
(* The command handlers *)

Commands == {"start", "help", "warn", "hardwarn", "warns", "allwarns", "amnesty", "fullamnesty"}

MutatingCommands == {"warn", "hardwarn", "amnesty", "fullamnesty"}

GroupChatTypes_Every == {"group", "supergroup", "private", "channel"}

\* message.chat.type in {"group", "supergroup"}
GroupChatTypes == {"group", "supergroup"}

\* What bot.get_chat_member gives: a member with a status, or an exception
MemberStatuses == {"creator", "administrator", "member", "left"}
LookupErrors == {"TelegramBadRequest", "TelegramNetworkError"}

\* is_admin: only TelegramBadRequest is caught; any other exception leaves
\* is_admin, and the handler that awaits it.
is_admin_raises(result) == result \in LookupErrors /\ result # "TelegramBadRequest"

is_admin_AnyMember(result) ==
    IF result = "TelegramBadRequest" THEN FALSE ELSE result \in MemberStatuses \ {"left"}

is_admin(result) ==
    IF result = "TelegramBadRequest" THEN FALSE ELSE result \in {"administrator", "creator"}

NoMessage ==
    [cmd |-> "none", chat_id |-> "None", chat_type |-> "none", from_user |-> NoUser,
     reply_from |-> NoUser, text |-> <<>>, entities |-> <<>>, args |-> None]

\* A handler step as seen from outside: the message handled, the result of
\* the membership lookup ("n/a" without one, "pending" while it is awaited),
\* the reply sent ("none" without one), the exception that left the handler
\* ("none" without one), the target resolved, the user reported on, and the
\* counts, the listing and the summary the reply shows.
Out(msg, member, reply, raised, target, user, counts, listed, summary) ==
    [msg |-> msg, member |-> member, reply |-> reply, raised |-> raised, target |-> target,
     user |-> user, counts |-> counts, listed |-> listed, summary |-> summary]

Replied(msg, member, reply) ==
    Out(msg, member, reply, "none", NoTarget, "None", <<0, 0>>, <<>>, <<>>)

NoOut == Replied(NoMessage, "n/a", "none")

\* getattr(target, "full_name", None) or "user"
DisplayName(target) ==
    IF OrNone(target.full_name) = None THEN <<"u","s","e","r">> ELSE target.full_name

\* rows[:20] of cmd_warns
ListCap == 20

\* The (chat, username_lower) pairs the tracking of a message wrote
Upserted(P, message) ==
    {<<r.chat_id, r.username_lower>> :
        r \in {q \in P : /\ q.chat_id = message.chat_id
                         /\ q.user_id \in {message.from_user.id, message.reply_from.id}
                         /\ q.username_lower # None}}

\* cmd_amnesty's reading of its arguments: count is 0 where the code has None
KindWord(w) ==
    IF w = <<"w","a","r","n">> THEN "warn"
    ELSE IF w = <<"h","a","r","d">> THEN "hard"
    ELSE IF w = <<"a","l","l">> THEN "all"
    ELSE "other"

ParseAmnesty_Magnitude(args) ==
    LET a     == IF args = None THEN <<>> ELSE strip(args)
        parts == IF a = <<>> THEN <<>> ELSE split(sub_handles(a))
        n     == IF parts = <<>> THEN [ok |-> FALSE, value |-> 0] ELSE int(parts[1])
    IN  [count |-> IF n.ok THEN (IF n.value < 0 THEN 0 - n.value ELSE n.value) ELSE 0,
         kind  |-> "all"]

ParseAmnesty(args) ==
    LET a     == IF args = None THEN <<>> ELSE strip(args)
        parts == IF a = <<>> THEN <<>> ELSE split(sub_handles(a))
        n     == IF parts = <<>> THEN [ok |-> FALSE, value |-> 0] ELSE int(parts[1])
    IN  [count |-> IF n.ok THEN n.value ELSE 0,
         kind  |-> IF Len(parts) >= 2 /\ KindWord(lower(parts[2])) # "other"
                   THEN KindWord(lower(parts[2])) ELSE "all"]

\* A suspended handler: its message, and (history) whether its tracking
\* of the participants changed the directory
Frame(msg, wrote) == [msg |-> msg, wrote |-> wrote]

\* A command arrives and its handler runs to its end, or to the await of
\* the membership lookup.
Deliver(Msgs) ==
    \E m \in Msgs :
        LET P1 == track_message_participants(participants, m, now)
        IN  IF ~is_allowed(m.from_user.id)
            THEN /\ out' = Replied(m, "n/a", "denied")
                 /\ UNCHANGED <<warns, nextId, now, participants, tasks, sighted, inserted, call>>
            ELSE /\ participants' = P1
                 /\ sighted' = sighted \cup Upserted(P1, m)
                 /\ UNCHANGED <<warns, nextId, now, inserted, call>>
                 /\ IF m.cmd = "start" THEN
                        out' = Replied(m, "n/a", "hello") /\ UNCHANGED tasks
                    ELSE IF m.cmd = "help" THEN
                        out' = Replied(m, "n/a", "help") /\ UNCHANGED tasks
                    ELSE IF m.cmd = "warns" THEN
                        /\ \E target \in extract_target_user(P1, m) :
                              LET user == IF target = NoTarget
                                          THEN Target(m.from_user.id, full_name(m.from_user))
                                          ELSE target
                                  rows == get_user_warns(warns, m.chat_id, user.id)
                              IN  out' = Out(m, "n/a",
                                             IF rows = <<>> THEN "no_warns" ELSE "list",
                                             "none", target, user.id,
                                             get_user_counts(warns, m.chat_id, user.id),
                                             Limit(rows, ListCap), <<>>)
                        /\ UNCHANGED tasks
                    ELSE IF m.cmd = "allwarns" THEN
                        /\ \E data \in get_all_counts(warns, m.chat_id) :
                              out' = Out(m, "n/a",
                                         IF data = <<>> THEN "no_summary" ELSE "summary",
                                         "none", NoTarget, "None", <<0, 0>>, <<>>, data)
                        /\ UNCHANGED tasks
                    ELSE IF m.chat_type \notin GroupChatTypes THEN
                        out' = Replied(m, "n/a", "group_only") /\ UNCHANGED tasks
                    ELSE
                        /\ BagCardinality(tasks) < MaxTasks
                        /\ tasks' = tasks (+) SetToBag({Frame(m, P1 # participants)})
                        /\ out' = Replied(m, "pending", "none")

\* The membership lookup of a suspended handler ends and the handler runs
\* to its end.
Resume ==
    \E f \in BagToSet(tasks), result \in MemberStatuses \cup LookupErrors :
      LET m == f.msg IN
        /\ tasks' = tasks (-) SetToBag({f})
        /\ UNCHANGED <<now, participants, sighted, inserted, call>>
        /\ IF is_admin_raises(result) THEN
               /\ out' = Out(m, result, "none", result, NoTarget, "None", <<0, 0>>, <<>>, <<>>)
               /\ UNCHANGED <<warns, nextId>>
           ELSE IF ~is_admin(result) THEN
               /\ out' = Replied(m, result, "admin_only")
               /\ UNCHANGED <<warns, nextId>>
           ELSE \E target \in extract_target_user(participants, m) :
               IF target = NoTarget THEN
                   /\ out' = Replied(m, result, "no_target")
                   /\ UNCHANGED <<warns, nextId>>
               ELSE IF m.cmd \in {"warn", "hardwarn"} THEN
                   /\ nextId <= MaxId
                   /\ warns' = add_warn(warns, nextId, m.chat_id, target.id, DisplayName(target),
                                        IF m.cmd = "warn" THEN "warn" ELSE "hard",
                                        clean_reason(m.args), m.from_user.id,
                                        full_name(m.from_user), now)
                   /\ nextId' = nextId + 1
                   /\ out' = Out(m, result, IF m.cmd = "warn" THEN "warned" ELSE "hardwarned",
                                 "none", target, target.id, <<0, 0>>, <<>>, <<>>)
               ELSE IF m.cmd = "amnesty" THEN
                   LET a == ParseAmnesty(m.args)
                   IN  IF a.count <= 0 THEN
                           /\ out' = Out(m, result, "usage", "none", target, "None",
                                         <<0, 0>>, <<>>, <<>>)
                           /\ UNCHANGED <<warns, nextId>>
                       ELSE
                           /\ warns' = amnesty_partial(warns, m.chat_id, target.id, a.count, a.kind)
                           /\ out' = Out(m, result, "amnestied", "none", target, target.id,
                                         get_user_counts(warns', m.chat_id, target.id), <<>>, <<>>)
                           /\ UNCHANGED nextId
               ELSE
                   /\ warns' = amnesty_full(warns, m.chat_id, target.id)
                   /\ out' = Out(m, result, "full_amnestied", "none", target, target.id,
                                 <<0, 0>>, <<>>, <<>>)
                   /\ UNCHANGED nextId

-----------------------------------------------------------------------------
(* Users and messages of the scenarios *)

UserA == User("578664673", <<"A","l">>, <<"A","n","n">>, None)
\* UserA after a change of handle
UserARenamed == User("578664673", <<"Z","z">>, <<"A","n","n">>, None)
UserB == User("921799469", None, <<"B","o">>, <<"L","e","e">>)
UserX == User("1000", <<"x","e">>, <<"X","e","n">>, <<>>)

\* The access scenario: every command in a group chat, from an allow-listed
\* sender (the mutating ones in reply to a message, the others with and
\* without one) and from a sender who is not allow-listed.
GateArgs(cmd) == IF cmd = "amnesty" THEN {<<"1">>, <<"x">>} ELSE {None}

GateMsgs ==
    {Message(x[1], "-100", "supergroup", x[2], x[3], x[4], NoUser) :
        x \in {y \in Commands \X {UserA, UserX} \X {NoUser, UserX} \X {None, <<"1">>, <<"x">>} :
                /\ y[4] \in GateArgs(y[1])
                /\ y[2] = UserX => y[3] = NoUser
                /\ (y[2] = UserA /\ y[1] \in MutatingCommands) => y[3] = UserX}}

\* The resolution scenario: warns in two group chats and fullamnesty in
\* one, with a reply or without, naming users by handle in several letter
\* cases, by a name that carries a user, after other handles and after
\* characters outside the Basic Multilingual Plane.
ResolveArgs ==
    {None,
     <<"@","A","L">>,
     <<"@","a","l">>,
     <<"@","z","z">>,
     <<"@","z","z"," ","@","A","l">>,
     <<"@","a","l"," ","@","z","z">>,
     <<"B","o"," ","@","a","l">>,
     <<"U+1F600"," ","@","a","l">>,
     <<"U+1F600","U+1F600"," ","@","A","L">>}

ResolveMsgs ==
    {Message(x[1], x[2], "supergroup", x[3], x[4], x[5], x[6]) :
        x \in {y \in {"warns", "fullamnesty"} \X {"-100", "-200"} \X {UserA, UserARenamed, UserB}
                     \X {NoUser, UserB} \X ResolveArgs \X {NoUser, UserB} :
                /\ y[2] = "-200" => y[1] = "warns" /\ y[3] = UserA /\ y[4] = NoUser
                /\ y[3] = UserARenamed => y[4] = NoUser /\ y[5] = None
                /\ y[6] # NoUser => y[5] # None /\ NameStarts(CommandText(y[1]) \o <<" ">> \o y[5]) # {}
                /\ y[1] = "fullamnesty" =>
                      /\ y[3] = UserA
                      /\ y[4] = NoUser
                      /\ y[5] \in {<<"@","A","L">>, <<"B","o"," ","@","a","l">>,
                                    <<"U+1F600","U+1F600"," ","@","A","L">>}}}

\* The argument scenario: an allow-listed sender's mutating commands in a
\* group chat, with a target (in reply to a message) and without one (no
\* reply, or a handle the directory does not have), amnesty with a count
\* that is missing, not a number, zero, negative, and valid.
MalformedArgs == {None, <<"x">>, <<"0">>, <<"-","1">>, <<"@","x","e">>}

ArgsMsgs ==
    {Message(x[1], "-100", "supergroup", UserA, x[2], x[3], NoUser) :
        x \in {y \in MutatingCommands \X {NoUser, UserX}
                     \X (MalformedArgs \cup {<<"1">>, <<"@","z","z">>}) :
                /\ y[1] # "amnesty" => y[3] \in {None, <<"@","z","z">>}
                /\ y[1] \in {"hardwarn", "fullamnesty"} => y[2] = NoUser /\ y[3] = None
                /\ (y[1] = "warn" /\ y[2] = UserX) => y[3] = None
                /\ (y[1] = "amnesty" /\ y[2] = NoUser) => y[3] = <<"1">>
                /\ y[1] = "amnesty" => y[3] # <<"@","z","z">>}}

\* The warning scenario: warn with a reason and a handle, hardwarn without
\* arguments and warns, all from one sender in reply to one author, while
\* the wall clock moves.  Nothing here deletes a record.
WarnMsgs ==
    {Message("warn", "-100", "supergroup", UserA, UserX, <<"s","p"," ","@","x","e">>, NoUser),
     Message("hardwarn", "-100", "supergroup", UserA, UserX, None, NoUser),
     Message("warns", "-100", "supergroup", UserA, UserX, None, NoUser)}

\* The long-ledger scenario: one user of a chat has two records more than
\* a listing shows, alternately of kind warn and hard, and the sender has a
\* record too; warns, amnesty and fullamnesty for that user interleave.
LongLedger ==
    {WarnRow(i, "-100", "1000", <<"X","e","n">>, IF i % 2 = 1 THEN "warn" ELSE "hard", <<>>,
             "578664673", <<"A","n","n">>, isoformat([s |-> 0, us |-> 0])) : i \in 1..(ListCap + 2)}
    \cup {WarnRow(ListCap + 3, "-100", "578664673", <<"A","n","n">>, "warn", <<>>,
                   "578664673", <<"A","n","n">>, isoformat([s |-> 0, us |-> 0]))}

LongMsgs ==
    {Message(x[1], "-100", "supergroup", UserA, UserX, x[2], NoUser) :
        x \in {<<"warns", None>>, <<"amnesty", <<"1">>>>, <<"amnesty", <<"2"," ","h","a","r","d">>>>,
                <<"fullamnesty", None>>}}

\* The chat-type scenario: the mutating commands in a private chat and in
\* a channel, from an allow-listed sender and from one who is not, and in
\* a group chat, where records are inserted and deleted.
ChatTypeMsgs ==
    {Message(x[1], x[2][1], x[2][2], x[3], x[4], IF x[1] = "amnesty" THEN <<"1">> ELSE None, NoUser) :
        x \in {y \in MutatingCommands
                     \X {<<"-100", "supergroup">>, <<"578664673", "private">>, <<"-300", "channel">>}
                     \X {UserA, UserX} \X {NoUser, UserX} :
                /\ y[2][2] = "supergroup" => y[3] = UserA /\ y[4] = UserX /\ y[1] \in {"warn", "fullamnesty"}
                /\ y[2][2] = "private" => y[3] = UserA /\ y[4] = NoUser
                /\ y[2][2] = "channel" => y[4] = UserX}}

\* The scope scenario: argument texts of amnesty with the count and the
\* scope they stand for, and warn and hardwarn to fill the ledger; all from
\* one sender in reply to one author.
ScopeTable ==
    {<<<<"1">>, 1, "all">>,
     <<<<"1"," ","h","a","r","d">>, 1, "hard">>,
     <<<<"2"," ","H","A","R","D">>, 2, "hard">>,
     <<<<"1"," ","W","a","r","n">>, 1, "warn">>,
     <<<<"1"," ","A","l","l">>, 1, "all">>,
     <<<<"1"," ","f","o","o">>, 1, "all">>,
     <<<<"1"," ","@","x","e"," ","h","a","r","d">>, 1, "hard">>,
     <<<<"1"," ","x"," ","h","a","r","d">>, 1, "all">>}

ScopeMsgs ==
    {Message("amnesty", "-100", "supergroup", UserA, UserX, e[1], NoUser) : e \in ScopeTable}
    \cup {Message(cmd, "-100", "supergroup", UserA, UserX, None, NoUser) : cmd \in {"warn", "hardwarn"}}

-----------------------------------------------------------------------------
(* The wall clock *)

Tick ==
    /\ \E t \in Clock : Earlier(now, t) /\ now' = t
    /\ UNCHANGED <<warns, nextId, inserted, call, botVars>>

\* utcnow() reads the system's real-time clock, which an adjustment sets back.
ClockStepBack ==
    /\ \E t \in Clock : Earlier(t, now) /\ now' = t
    /\ UNCHANGED <<warns, nextId, inserted, call, botVars>>

-----------------------------------------------------------------------------
(* The ledger driver: repository calls made directly, in any order.  The   *)
(* clock reading utcnow() gives add_warn is an input of the call.          *)

PairRows(W, chat_id, user_id) == {r \in W : r.chat_id = chat_id /\ r.user_id = user_id}

\* The add-only driver counts its calls in `inserted`.
CallAddOnly ==
    \E p \in LedgerPairs, k \in WarnTypes, t \in LedgerClock :
        /\ nextId <= MaxId
        /\ warns' = add_warn(warns, nextId, p[1], p[2], <<"u","s","e","r">>, k, None, None, None, t)
        /\ nextId' = nextId + 1
        /\ inserted' = [inserted EXCEPT ![<<p[1], p[2], k>>] = @ + 1]
        /\ call' = [op |-> "add_warn", chat_id |-> p[1], user_id |-> p[2], kind |-> k]
        /\ UNCHANGED <<now, botVars>>

CallAddWarn ==
    \E p \in LedgerPairs, k \in WarnTypes, t \in LedgerClock :
        /\ nextId <= MaxId
        /\ warns' = add_warn(warns, nextId, p[1], p[2], <<"u","s","e","r">>, k, None, None, None, t)
        /\ nextId' = nextId + 1
        /\ call' = [op |-> "add_warn", chat_id |-> p[1], user_id |-> p[2], kind |-> k]
        /\ UNCHANGED <<now, inserted, botVars>>

CallAmnestyPartial ==
    \E p \in LedgerPairs, n \in LedgerCounts, k \in WarnTypes \cup {"all"} :
        /\ warns' = amnesty_partial(warns, p[1], p[2], n, k)
        /\ call' = [op |-> "amnesty_partial", chat_id |-> p[1], user_id |-> p[2],
                    count |-> n, kind |-> k,
                    removed |-> Cardinality(warns) - Cardinality(warns')]
        /\ UNCHANGED <<nextId, now, inserted, botVars>>

CallAmnestyFull ==
    \E p \in LedgerPairs :
        /\ warns' = amnesty_full(warns, p[1], p[2])
        /\ call' = [op |-> "amnesty_full", chat_id |-> p[1], user_id |-> p[2],
                    removed |-> Cardinality(warns) - Cardinality(warns')]
        /\ UNCHANGED <<nextId, now, inserted, botVars>>

\* The summary of a chat is read.
CallGetAllCounts ==
    \E c \in LedgerChats :
        \E data \in get_all_counts(warns, c) :
            /\ call' = [op |-> "get_all_counts", chat_id |-> c, result |-> data]
            /\ UNCHANGED <<warns, nextId, now, inserted, botVars>>

-----------------------------------------------------------------------------
(* The directory driver: participant_upsert called directly, in any order,   *)
(* with profiles whose fields are present, empty or absent.                  *)

DirectoryProfiles ==
    {User(x[1], x[2], x[3], x[4]) :
        x \in {"578664673", "1000"} \X {None, <<>>, <<"A","l">>}
                \X {<<>>, <<"A","n","n">>} \X {None, <<"L","e","e">>}}

CallUpsert ==
    \E k \in LedgerPairs, user \in DirectoryProfiles \cup {NoUser}, t \in LedgerClock :
        /\ user # NoUser => user.id = k[2]
        /\ participants' = participant_upsert(participants, k[1], user, t)
        /\ call' = [op |-> "participant_upsert", chat_id |-> k[1], user |-> user]
        /\ UNCHANGED <<warns, nextId, now, inserted, tasks, out, sighted>>

-----------------------------------------------------------------------------
(* The sanitization driver: clean_reason called directly on every text of   *)
(* up to MaxLen characters over a small alphabet, and on the example.       *)

MaxLen == 4

ReasonAlphabet == {"@", "a", "_", " "}

RECURSIVE TextsUpTo(_)
TextsUpTo(n) ==
    IF n = 0 THEN {<<>>}
    ELSE LET shorter == TextsUpTo(n - 1)
         IN  shorter \cup {Append(s, c) : s \in shorter, c \in ReasonAlphabet}

SpamAliceBob == <<"s","p","a","m"," ","@","a","l","i","c","e"," ","@","b","o","b">>

ReasonInputs == TextsUpTo(MaxLen) \cup {None, SpamAliceBob}

CallCleanReason ==
    \E args \in ReasonInputs :
        /\ call' = [op |-> "clean_reason", args |-> args, result |-> clean_reason(args)]
        /\ UNCHANGED <<warns, nextId, now, inserted, botVars>>

-----------------------------------------------------------------------------
(* Specifications *)

Init ==
    /\ warns = {}
    /\ nextId = 1
    /\ now = [s |-> 0, us |-> 0]
    /\ inserted = [x \in LedgerPairs3 |-> 0]
    /\ call = [op |-> "none"]
    /\ participants = {}
    /\ tasks = EmptyBag
    /\ out = NoOut
    /\ sighted = {}

\* The state after the warnings of the long ledger were given.
InitLong ==
    /\ warns = LongLedger
    /\ nextId = ListCap + 4
    /\ now = [s |-> 0, us |-> 0]
    /\ inserted = [x \in LedgerPairs3 |-> 0]
    /\ call = [op |-> "none"]
    /\ participants = {}
    /\ tasks = EmptyBag
    /\ out = NoOut
    /\ sighted = {}

\* The long-ledger scenario.
NextLong == Deliver(LongMsgs) \/ Resume
SpecLong == InitLong /\ [][NextLong]_vars

\* Only participant_upsert calls, for any keys in any order.
NextDirectory == CallUpsert
SpecDirectory == Init /\ [][NextDirectory]_vars

\* Only clean_reason calls.
NextReason == CallCleanReason
SpecReason == Init /\ [][NextReason]_vars

\* Ledger writes and reads of the chat summary, in any order.
NextSummary == CallAddWarn \/ CallAmnestyFull \/ CallGetAllCounts
SpecSummary == Init /\ [][NextSummary]_vars

\* Only add_warn calls, for any pairs in any order.
NextAdd == CallAddOnly
SpecAdd == Init /\ [][NextAdd]_vars

\* The access scenario.
NextGate == Deliver(GateMsgs) \/ Resume
SpecGate == Init /\ [][NextGate]_vars

\* The resolution scenario.
NextResolve == Deliver(ResolveMsgs) \/ Resume
SpecResolve == Init /\ [][NextResolve]_vars

\* The argument scenario.
NextArgs == Deliver(ArgsMsgs) \/ Resume
SpecArgs == Init /\ [][NextArgs]_vars

\* The warning scenario.
NextWarn == Deliver(WarnMsgs) \/ Resume \/ Tick \/ ClockStepBack
SpecWarn == Init /\ [][NextWarn]_vars

\* The chat-type scenario.
NextChatType == Deliver(ChatTypeMsgs) \/ Resume
SpecChatType == Init /\ [][NextChatType]_vars

\* The scope scenario.
NextScope == Deliver(ScopeMsgs) \/ Resume
SpecScope == Init /\ [][NextScope]_vars

\* Every ledger write, in any order.
NextLedger == CallAddWarn \/ CallAmnestyPartial \/ CallAmnestyFull
SpecLedger == Init /\ [][NextLedger]_vars

-----------------------------------------------------------------------------
(* Properties of the ledger *)

\* r is more recent than s: created_at descending, id descending among ties.
MoreRecent(r, s) ==
    \/ TextLess(s.created_at, r.created_at)
    \/ s.created_at = r.created_at /\ r.id > s.id

\* C1: after any sequence of add_warn calls, for any pairs in any order,
\* get_user_counts(chat, user) is (the number of 'warn' rows inserted for the
\* pair, the number of 'hard' rows inserted for it), 0 for a kind never
\* inserted.
C1_CountsAreInsertions ==
    \A p \in LedgerPairs :
        get_user_counts(warns, p[1], p[2]) =
            <<inserted[<<p[1], p[2], "warn">>], inserted[<<p[1], p[2], "hard">>]>>

\* Two 'warn' rows and no 'hard' row for one user, a 'hard' row for another
\* user of the same chat inserted among them.
C1_Witness ==
    /\ inserted[<<"-100", "578664673", "warn">>] = 2
    /\ inserted[<<"-100", "578664673", "hard">>] = 0
    /\ inserted[<<"-100", "1000", "hard">>] = 1
    /\ get_user_counts(warns, "-100", "578664673") = <<2, 0>>
    /\ \E r \in warns : r.id = 2 /\ r.user_id = "1000"

\* C2: amnesty_partial(chat, user, N, 'all') with N >= 1 removes exactly
\* min(N, previous total) rows, all of that (chat, user), and every row of the
\* pair that survives is older in the recency order than every row removed.
C2_AmnestyAllRemovesMostRecent ==
    [][(call'.op = "amnesty_partial" /\ call'.kind = "all") =>
        LET P == PairRows(warns, call'.chat_id, call'.user_id)
            R == warns \ warns'
        IN  /\ warns' \subseteq warns
            /\ R \subseteq P
            /\ Cardinality(R) = Min(call'.count, Cardinality(P))
            /\ \A r \in R, q \in P \ R : MoreRecent(r, q)]_vars

\* An amnesty of 1 over both kinds that removed a row and left the user an
\* older row with a larger id than some row inserted later would have.
C2_Witness ==
    /\ call.op = "amnesty_partial" /\ call.kind = "all"
    /\ call.count = 1 /\ call.removed = 1
    /\ Cardinality(PairRows(warns, call.chat_id, call.user_id)) = 2
    /\ nextId = 4

\* C3: amnesty_partial(chat, user, count, kind) with kind 'warn' or 'hard'
\* deletes only rows of that kind of that (chat, user), min(count, rows of
\* that kind) of them, the most recent of the kind; every other row stays.
C3_AmnestyKindTouchesOnlyKind ==
    [][(call'.op = "amnesty_partial" /\ call'.kind \in {"warn", "hard"}) =>
        LET K == {r \in PairRows(warns, call'.chat_id, call'.user_id) :
                    r.warn_type = call'.kind}
            R == warns \ warns'
        IN  /\ warns' \subseteq warns
            /\ R \subseteq K
            /\ Cardinality(R) = Min(call'.count, Cardinality(K))
            /\ \A r \in R, q \in K \ R : MoreRecent(r, q)]_vars

\* Count 2, kind 'hard', a user with one 'hard' and two 'warn' rows: the one
\* 'hard' row went, both 'warn' rows stayed.
C3_Witness ==
    /\ call.op = "amnesty_partial" /\ call.kind = "hard"
    /\ call.count = 2 /\ call.removed = 1
    /\ get_user_counts(warns, call.chat_id, call.user_id) = <<2, 0>>

\* C4: right after amnesty_full(chat, user), get_user_warns(chat, user) is
\* empty and get_user_counts(chat, user) is (0, 0); the rows of every other
\* (chat, user) are as they were.
C4_AmnestyFullEmptiesPair ==
    [][call'.op = "amnesty_full" =>
        /\ get_user_warns(warns', call'.chat_id, call'.user_id) = <<>>
        /\ get_user_counts(warns', call'.chat_id, call'.user_id) = <<0, 0>>
        /\ warns' \subseteq warns
        /\ \A r \in warns :
              (r.chat_id # call'.chat_id \/ r.user_id # call'.user_id) => r \in warns']_vars

\* A full amnesty that removed two rows of both kinds while the same user
\* keeps a row in another chat.
C4_Witness ==
    /\ call.op = "amnesty_full" /\ call.removed = 2
    /\ call.chat_id = "-100" /\ call.user_id = "578664673"
    /\ PairRows(warns, "-200", "578664673") # {}

\* C5: get_user_warns(chat, user) lists all and only the rows of the pair,
\* created_at descending and id descending among equal created_at; no two
\* rows share an id, so the order is determined by the table alone and a
\* second read of the same table gives the same list.
C5_ListingNewestFirst ==
    /\ \A r, q \in warns : r.id = q.id => r = q
    /\ \A p \in LedgerPairs :
          LET rows == get_user_warns(warns, p[1], p[2])
              P    == PairRows(warns, p[1], p[2])
          IN  /\ Len(rows) = Cardinality(P)
              /\ \A i \in 1..Len(rows) :
                    \E r \in P :
                        /\ r.id = rows[i].id /\ r.warn_type = rows[i].warn_type
                        /\ r.reason = rows[i].reason /\ r.created_at = rows[i].created_at
                        /\ r.given_by_name = rows[i].given_by_name
              /\ \A i, j \in 1..Len(rows) : i < j => MoreRecent(rows[i], rows[j])

\* Three rows of one user: the newest has the smallest id, the other two
\* share a created_at.
C5_Witness ==
    \E p \in LedgerPairs :
        LET rows == get_user_warns(warns, p[1], p[2])
        IN  /\ Len(rows) = 3
            /\ rows[1].id = 1
            /\ rows[2].created_at = rows[3].created_at

-----------------------------------------------------------------------------
(* Access control *)

\* A step that ends handler f: Resume's
Ends(f) == f \in BagToSet(tasks) /\ tasks' = tasks (-) SetToBag({f})

\* A step that handles a message from its arrival: Deliver's
Arrives == BagCardinality(tasks') >= BagCardinality(tasks)

\* C6: a record of the ledger is inserted or deleted only by the handler of a
\* warn, hardwarn, amnesty or fullamnesty command, after its membership
\* lookup, when the sender is in the allow-list and the lookup gave
\* administrator or creator; when the lookup of an allow-listed sender gives
\* any other status the handler replies with the denial and the ledger is
\* the same as before.
C6_MutationIsGated ==
    [][ /\ warns' # warns =>
            /\ Ends(Frame(out'.msg, TRUE)) \/ Ends(Frame(out'.msg, FALSE))
            /\ out'.msg.cmd \in MutatingCommands
            /\ out'.msg.from_user.id \in ALLOWED_USER_IDS
            /\ out'.member \in {"administrator", "creator"}
        /\ \A f \in BagToSet(tasks) :
              (Ends(f) /\ out'.member \in MemberStatuses \ {"administrator", "creator"}) =>
                  /\ f.msg.from_user.id \in ALLOWED_USER_IDS
                  /\ out'.reply = "admin_only"
                  /\ warns' = warns
      ]_vars

\* A member who is no administrator has just been denied, after records
\* were inserted and one was deleted.
C6_Witness ==
    /\ out.member = "member"
    /\ out.reply = "admin_only"
    /\ out.msg.cmd \in MutatingCommands
    /\ warns # {}
    /\ nextId > Cardinality(warns) + 1

\* The rows of the directory that differ between P and Q
RowsChanged(P, Q) == (P \ Q) \cup (Q \ P)

\* C7 (as the code has it): a command of a sender outside the allow-list is
\* denied and changes neither the ledger nor the directory.  A mutating
\* command denied by the administrator check leaves the ledger unchanged,
\* but its tracking of the participants ran before the check: up to the
\* lookup the handler changes no row of the directory but those of its
\* sender and of the author it replies to, in its chat, and from the
\* lookup to the denial it changes nothing.
C7_DenialFrame ==
    [][ /\ (Arrives /\ out'.msg.from_user.id \notin ALLOWED_USER_IDS) =>
            /\ out'.reply = "denied"
            /\ warns' = warns
            /\ participants' = participants
        /\ (Arrives /\ out'.member = "pending") =>
            /\ warns' = warns
            /\ \A r \in RowsChanged(participants, participants') :
                  /\ r.chat_id = out'.msg.chat_id
                  /\ r.user_id \in {out'.msg.from_user.id, out'.msg.reply_from.id}
        /\ out'.reply = "admin_only" =>
            /\ warns' = warns
            /\ participants' = participants
      ]_vars

\* A handler has just been denied by the administrator check, no record
\* was ever inserted, and the row of its sender is in the directory.
C7_Witness ==
    /\ out.reply = "admin_only"
    /\ warns = {}
    /\ nextId = 1
    /\ \E r \in participants :
          r.chat_id = out.msg.chat_id /\ r.user_id = out.msg.from_user.id

\* C7 as stated: after a denial of either kind the ledger and the directory
\* are as they were before the command.
C7_DenialChangesNothing ==
    [][ /\ out'.reply = "denied" => warns' = warns /\ participants' = participants
        /\ \A f \in BagToSet(tasks) :
              (Ends(f) /\ out'.reply = "admin_only") =>
                  /\ ~f.wrote
                  /\ warns' = warns
                  /\ participants' = participants
      ]_vars

\* C10 as stated: when the membership lookup of a mutating command fails,
\* the handler replies with the denial, the ledger is unchanged and no
\* exception leaves the handler.
C10_LookupFailureIsDenial ==
    [][ \A f \in BagToSet(tasks) :
          (Ends(f) /\ out'.member \in LookupErrors) =>
              /\ out'.reply = "admin_only"
              /\ out'.raised = "none"
              /\ warns' = warns
      ]_vars

-----------------------------------------------------------------------------
(* Target resolution *)

\* The handler of out.msg has resolved its target
Resolved(o) ==
    o.reply \in {"list", "no_warns", "no_target", "warned", "hardwarned", "usage",
                 "amnestied", "full_amnestied"}

\* The characters of a text that an entity covers: those that start at a
\* UTF-16 offset within the entity
EntityText(text, ent) ==
    LET idx == {i \in 1..Len(text) :
                  LET o == Utf16Len(SubSeq(text, 1, i - 1))
                  IN  o >= ent.offset /\ o < ent.offset + ent.length}
    IN  IF idx = {} THEN <<>>
        ELSE SubSeq(text, CHOOSE i \in idx : \A j \in idx : i <= j,
                          CHOOSE i \in idx : \A j \in idx : i >= j)

TextMentions(message) ==
    {i \in 1..Len(message.entities) :
        message.entities[i].type = "text_mention" /\ message.entities[i].user # NoUser}

Mentions(message) ==
    {i \in 1..Len(message.entities) : message.entities[i].type = "mention"}

\* The targets the stated precedence allows: the author replied to; else
\* the user of the first text_mention; else what the directory of the chat
\* has for the lower-cased handle of the last mention entity; else none.
StatedTargets(P, message) ==
    LET tms  == TextMentions(message)
        ms   == Mentions(message)
        last == message.entities[CHOOSE i \in ms : \A j \in ms : i >= j]
        found == find_participant_by_username(
                     P, message.chat_id, lower(lstrip_at(EntityText(message.text, last))))
    IN  IF message.reply_from # NoUser
        THEN {Target(message.reply_from.id, full_name(message.reply_from))}
        ELSE IF tms # {}
        THEN LET u == message.entities[CHOOSE i \in tms : \A j \in tms : i <= j].user
             IN  {Target(u.id, full_name(u))}
        ELSE IF ms # {} /\ found # {} THEN found
        ELSE {NoTarget}

\* C8 as stated: the target a handler resolves is the author replied to,
\* else the user of the first text_mention entity, else the directory's
\* user for the lower-cased last mention entity, else no target.
C8_ResolutionPrecedence ==
    Resolved(out) => out.target \in StatedTargets(participants, out.msg)

\* The target of o was resolved by a plain @handle
ByHandle(o) ==
    /\ Resolved(o)
    /\ o.msg.reply_from = NoUser
    /\ TextMentions(o.msg) = {}
    /\ o.target # NoTarget

UpperChar(c) ==
    IF \E i \in 1..Len(LowerLetters) : LowerLetters[i] = c
    THEN UpperLetters[CHOOSE i \in 1..Len(LowerLetters) : LowerLetters[i] = c]
    ELSE c

\* The message typed in upper case, and typed in lower case
InUpperCase(message) == [message EXCEPT !.text = [i \in 1..Len(message.text) |-> UpperChar(message.text[i])]]
InLowerCase(message) == [message EXCEPT !.text = lower(message.text)]

\* C9 (as the code has it): a plain @handle resolves in a chat only if a
\* command handled in that chat, the resolving command itself included,
\* upserted a participant whose lower-cased handle is the lower-cased handle
\* looked up; a sighting in another chat does not count; and the letter
\* case the handle is typed in does not change the result.
C9_HandleNeedsSightingInChat ==
    /\ ByHandle(out) =>
          LET uname == extract_mention_username(out.msg)
          IN  /\ uname # None
              /\ <<out.msg.chat_id, lower(uname)>> \in sighted
    /\ Resolved(out) =>
          /\ extract_target_user(participants, InUpperCase(out.msg))
                = extract_target_user(participants, out.msg)
          /\ extract_target_user(participants, InLowerCase(out.msg))
                = extract_target_user(participants, out.msg)

\* A handle typed in capitals has resolved in a chat while the same handle
\* was sighted in another chat too.
C9_Witness ==
    /\ ByHandle(out)
    /\ extract_mention_username(out.msg) # lower(extract_mention_username(out.msg))
    /\ \E x \in sighted :
          x[1] # out.msg.chat_id /\ x[2] = lower(extract_mention_username(out.msg))

\* C9 as stated: a plain @handle resolves only if a command handled earlier
\* in the chat upserted a participant with that lower-cased handle.
C9_HandleNeedsEarlierSighting ==
    [][ (Arrives /\ ByHandle(out')) =>
            <<out'.msg.chat_id, lower(extract_mention_username(out'.msg))>> \in sighted
      ]_vars

-----------------------------------------------------------------------------
(* Clarification and usage replies *)

\* C11 (as the code has it): the handler of a mutating command of an
\* allow-listed administrator replies with the clarification prompt when no
\* target can be determined, and with the usage hint when amnesty has a
\* target and a count that is missing, not a number, zero or negative; in
\* both cases the ledger is unchanged.  The tracking of the participants
\* ran before: up to the lookup the handler changes no row of the
\* directory but those of its sender and of the author it replies to, and
\* from the lookup to the reply it changes nothing.
C11_ClarificationFrame ==
    [][ /\ \A f \in BagToSet(tasks) :
              (Ends(f) /\ out'.member \in {"administrator", "creator"}) =>
                  /\ StatedTargets(participants, f.msg) = {NoTarget} => out'.reply = "no_target"
                  /\ ( /\ f.msg.cmd = "amnesty"
                       /\ StatedTargets(participants, f.msg) # {NoTarget}
                       /\ f.msg.args \in MalformedArgs ) => out'.reply = "usage"
        /\ out'.reply \in {"no_target", "usage"} =>
              /\ warns' = warns
              /\ participants' = participants
        /\ (Arrives /\ out'.member = "pending") =>
              /\ warns' = warns
              /\ \A r \in RowsChanged(participants, participants') :
                    /\ r.chat_id = out'.msg.chat_id
                    /\ r.user_id \in {out'.msg.from_user.id, out'.msg.reply_from.id}
      ]_vars

\* An amnesty with a negative count has just got the usage hint, with
\* records in the ledger and its sender's row in the directory.
C11_Witness ==
    /\ out.reply = "usage"
    /\ out.msg.args = <<"-","1">>
    /\ warns # {}
    /\ \E r \in participants :
          r.chat_id = out.msg.chat_id /\ r.user_id = out.msg.from_user.id

\* C11 as stated: after the clarification prompt or the usage hint the
\* ledger and the directory are as they were before the command.
C11_ClarificationChangesNothing ==
    [][ \A f \in BagToSet(tasks) :
          (Ends(f) /\ out'.reply \in {"no_target", "usage"}) =>
              /\ ~f.wrote
              /\ warns' = warns
              /\ participants' = participants
      ]_vars

-----------------------------------------------------------------------------
(* Warnings *)

\* The record of a (chat, user) inserted last: with no deletion, the one
\* with the largest id
LastInserted(W, chat_id, user_id) ==
    CHOOSE r \in PairRows(W, chat_id, user_id) :
        \A s \in PairRows(W, chat_id, user_id) : s.id <= r.id

\* C12 as stated: a warn (hardwarn) that passes the gates and resolves a
\* target inserts exactly one record, of kind warn (hard), for the target
\* in the chat, with the sanitized arguments as reason and the sender as
\* issuer, and no other record changes; a warns for a user that follows
\* the insertion of a record for that user reports counts that include the
\* record and lists it first.
C12_WarnInsertsOneListedFirst ==
    [][ /\ \A f \in BagToSet(tasks) :
              ( /\ Ends(f)
                /\ f.msg.cmd \in {"warn", "hardwarn"}
                /\ out'.member \in {"administrator", "creator"}
                /\ out'.target # NoTarget ) =>
                  \E r \in warns' \ warns :
                      /\ warns' = warns \cup {r}
                      /\ r.chat_id = f.msg.chat_id
                      /\ r.user_id = out'.target.id
                      /\ r.warn_type = (IF f.msg.cmd = "warn" THEN "warn" ELSE "hard")
                      /\ r.reason = clean_reason(f.msg.args)
                      /\ r.given_by_id = f.msg.from_user.id
        /\ ( /\ Arrives
             /\ out'.msg.cmd = "warns"
             /\ PairRows(warns', out'.msg.chat_id, out'.user) # {} ) =>
               /\ out'.reply = "list"
               /\ out'.listed[1].id = LastInserted(warns', out'.msg.chat_id, out'.user).id
               /\ out'.counts =
                     <<Cardinality({r \in PairRows(warns', out'.msg.chat_id, out'.user) : r.warn_type = "warn"}),
                       Cardinality({r \in PairRows(warns', out'.msg.chat_id, out'.user) : r.warn_type = "hard"})>>
      ]_vars

-----------------------------------------------------------------------------
(* The participant directory *)

OneRowPerKey(P) ==
    \A r, s \in P : (r.chat_id = s.chat_id /\ r.user_id = s.user_id) => r = s

\* A field as the directory stores it: null when missing or empty
Stored(x) == IF x = None \/ x = <<>> THEN None ELSE x

\* C13: the directory has at most one row per (chat_id, user_id); an upsert
\* of an absent profile changes nothing; any other upsert leaves one row
\* for its key, with the handle, the lower-cased handle, the first and the
\* last name of the profile (null where missing or empty), and leaves the
\* rows of all other keys as they were.
C13_UpsertLastWriteWins ==
    [][ call'.op = "participant_upsert" =>
          /\ OneRowPerKey(participants')
          /\ call'.user = NoUser => participants' = participants
          /\ call'.user # NoUser =>
                /\ \E r \in participants' :
                      /\ r.chat_id = call'.chat_id
                      /\ r.user_id = call'.user.id
                      /\ r.username = Stored(call'.user.username)
                      /\ r.username_lower =
                            (IF Stored(call'.user.username) = None THEN None
                             ELSE lower(call'.user.username))
                      /\ r.first_name = Stored(call'.user.first_name)
                      /\ r.last_name = Stored(call'.user.last_name)
                /\ {r \in participants' : ~(r.chat_id = call'.chat_id /\ r.user_id = call'.user.id)}
                     = {r \in participants : ~(r.chat_id = call'.chat_id /\ r.user_id = call'.user.id)}
      ]_vars

\* A profile with an empty handle has overwritten a row, and every key of
\* the scenario has its row.
C13_Witness ==
    /\ call.op = "participant_upsert"
    /\ call.user # NoUser
    /\ call.user.username = <<>>
    /\ Cardinality(participants) = Cardinality(LedgerPairs)
    /\ \E r \in participants :
          r.username # None /\ r.username_lower = lower(r.username) /\ r.username_lower # r.username

-----------------------------------------------------------------------------
(* Reason sanitization *)

\* Position i of a text lies in an @handle-shaped token: it is an '@' with
\* a word character after it, or a word character that a run of word
\* characters joins to such an '@'.
InHandle(text, i) ==
    \/ text[i] = "@" /\ i < Len(text) /\ IsWord(text[i + 1])
    \/ /\ IsWord(text[i])
       /\ \E j \in 1..(i - 1) :
             text[j] = "@" /\ \A k \in (j + 1)..i : IsWord(text[k])

RECURSIVE WithoutHandles(_, _)
WithoutHandles(text, i) ==
    IF i > Len(text) THEN <<>>
    ELSE (IF InHandle(text, i) THEN <<>> ELSE <<text[i]>>) \o WithoutHandles(text, i + 1)

Trimmed(text) ==
    LET solid == {i \in 1..Len(text) : ~IsSpace(text[i])}
    IN  IF solid = {} THEN <<>>
        ELSE SubSeq(text, CHOOSE i \in solid : \A j \in solid : i <= j,
                          CHOOSE i \in solid : \A j \in solid : i >= j)

\* C14: the sanitized reason is the argument text without its
\* @handle-shaped tokens, trimmed of leading and trailing whitespace; it
\* is empty for absent or empty arguments, "spam" for "spam @alice @bob",
\* and never has an '@' followed by a word character.
C14_ReasonSanitized ==
    call.op = "clean_reason" =>
        /\ call.args \in {None, <<>>} => call.result = <<>>
        /\ call.args # None => call.result = Trimmed(WithoutHandles(call.args, 1))
        /\ call.args = SpamAliceBob => call.result = <<"s","p","a","m">>
        /\ \A i \in 1..(Len(call.result) - 1) :
              ~(call.result[i] = "@" /\ IsWord(call.result[i + 1]))

\* The example: "spam @alice @bob" has been sanitized.
C14_Witness ==
    /\ call.op = "clean_reason"
    /\ call.args = SpamAliceBob
    /\ Len(call.result) = 4

-----------------------------------------------------------------------------
(* The chat summary *)

\* C15: the summary of a chat has exactly one row for each user with a
\* record in the chat, with the user's numbers of warn and of hard records
\* in that chat, ordered by total descending and, among equal totals, by
\* the number of hard records descending.
C15_SummaryPerUserOrdered ==
    call.op = "get_all_counts" =>
        LET d     == call.result
            users == {r.user_id : r \in {q \in warns : q.chat_id = call.chat_id}}
        IN  /\ Len(d) = Cardinality(users)
            /\ {d[i].user_id : i \in 1..Len(d)} = users
            /\ \A i \in 1..Len(d) :
                  /\ d[i].warn_cnt = Cardinality({r \in PairRows(warns, call.chat_id, d[i].user_id) :
                                                     r.warn_type = "warn"})
                  /\ d[i].hard_cnt = Cardinality({r \in PairRows(warns, call.chat_id, d[i].user_id) :
                                                     r.warn_type = "hard"})
            /\ \A i, j \in 1..Len(d) :
                  i < j =>
                    /\ d[i].warn_cnt + d[i].hard_cnt >= d[j].warn_cnt + d[j].hard_cnt
                    /\ d[i].warn_cnt + d[i].hard_cnt = d[j].warn_cnt + d[j].hard_cnt
                          => d[i].hard_cnt >= d[j].hard_cnt

\* A summary of two users with equal totals and different numbers of hard
\* records has been read, while another chat has a record too.
C15_Witness ==
    /\ call.op = "get_all_counts"
    /\ Len(call.result) = 2
    /\ call.result[1].warn_cnt + call.result[1].hard_cnt
         = call.result[2].warn_cnt + call.result[2].hard_cnt
    /\ call.result[1].hard_cnt > call.result[2].hard_cnt
    /\ \E r \in warns : r.chat_id # call.chat_id

-----------------------------------------------------------------------------
(* Reading commands *)

\* C16 as stated: warns looks no membership up and leaves the ledger
\* unchanged; it reports on the target when the resolution of the stated
\* precedence yields one, and on its sender when it yields none; allwarns
\* leaves the ledger unchanged.
C16_WarnsReportsOnTargetOrSender ==
    [][ /\ ( /\ Arrives
             /\ out'.msg.cmd = "warns"
             /\ out'.msg.from_user.id \in ALLOWED_USER_IDS ) =>
               /\ out'.member = "n/a"
               /\ out'.reply \in {"list", "no_warns"}
               /\ warns' = warns
               /\ LET T == StatedTargets(participants', out'.msg)
                  IN  IF T = {NoTarget} THEN out'.user = out'.msg.from_user.id
                      ELSE out'.user \in {t.id : t \in T}
        /\ (Arrives /\ out'.msg.cmd = "allwarns") => warns' = warns
      ]_vars

-----------------------------------------------------------------------------
(* Back-to-back ledger operations *)

KindCounts(W, chat_id, user_id) ==
    <<Cardinality({r \in PairRows(W, chat_id, user_id) : r.warn_type = "warn"}),
      Cardinality({r \in PairRows(W, chat_id, user_id) : r.warn_type = "hard"})>>

-----------------------------------------------------------------------------
(* The chat type *)

\* C18: the handler of a warn, hardwarn, amnesty or fullamnesty command
\* received in a chat that is neither a group nor a supergroup ends
\* without a membership lookup and leaves the ledger unchanged, whoever
\* sent it; no handler suspended in a lookup is of such a chat.
C18_OnlyGroupsMutate ==
    [][ /\ ( /\ Arrives
             /\ out'.msg.cmd \in MutatingCommands
             /\ out'.msg.chat_type \notin {"group", "supergroup"} ) =>
               /\ warns' = warns
               /\ tasks' = tasks
               /\ out'.member = "n/a"
               /\ out'.reply = (IF out'.msg.from_user.id \in ALLOWED_USER_IDS
                                THEN "group_only" ELSE "denied")
        /\ \A f \in BagToSet(tasks') : f.msg.chat_type \in {"group", "supergroup"}
        /\ warns' # warns => out'.msg.chat_type \in {"group", "supergroup"}
      ]_vars

\* An allow-listed sender's command in a channel, in reply to a user with
\* records in the ledger, has just been turned away.
C18_Witness ==
    /\ out.reply = "group_only"
    /\ out.msg.chat_type = "channel"
    /\ out.msg.reply_from.id \in {r.user_id : r \in warns}

-----------------------------------------------------------------------------
(* The scope of amnesty *)

\* C19: amnesty with a valid count deletes the most recent records of the
\* scope its second argument token names (warn, hard or all, in any letter
\* case, @handle tokens not counted), and of both kinds when the token is
\* absent or is another word.
C19_AmnestyScope ==
    [][ \A f \in BagToSet(tasks) :
          (Ends(f) /\ f.msg.cmd = "amnesty" /\ out'.member \in {"administrator", "creator"}) =>
              \E e \in ScopeTable :
                  /\ e[1] = f.msg.args
                  /\ out'.reply = "amnestied"
                  /\ warns' = amnesty_partial(warns, f.msg.chat_id, f.msg.reply_from.id, e[2], e[3])
                  /\ \A r \in warns \ warns' :
                        /\ e[3] # "all" => r.warn_type = e[3]
                        /\ \A s \in warns' :
                              ( /\ s.chat_id = r.chat_id
                                /\ s.user_id = r.user_id
                                /\ e[3] # "all" => s.warn_type = e[3] ) => MoreRecent(r, s)
      ]_vars

\* An amnesty with an unrecognised scope word has deleted a hard record,
\* the most recent one, and left a warn record.
C19_Witness ==
    /\ out.reply = "amnestied"
    /\ out.msg.args = <<"1"," ","f","o","o">>
    /\ nextId = 3
    /\ \E r \in warns : r.id = 1 /\ r.warn_type = "warn"
    /\ Cardinality(warns) = 1

-----------------------------------------------------------------------------
(* Handles in the directory *)

\* C20 as stated: in every reachable state of the directory at most one
\* row of a chat carries a given non-null lower-cased handle, so that the
\* lookup of a handle in a chat has one possible result at most.
C20_OneRowPerHandle ==
    /\ \A r, s \in participants :
          ( /\ r.chat_id = s.chat_id
            /\ r.username_lower # None
            /\ r.username_lower = s.username_lower ) => r = s
    /\ \A r \in participants :
          r.username_lower # None =>
              Cardinality(find_participant_by_username(participants, r.chat_id, r.username_lower)) = 1

====
